---- MODULE Spec2Model ----
(***************************************************************************)
(* Model of lc-streamliner-rs (src/src/main.rs): the gateway event handler *)
(* Handler::message, the parser author_get, the two session slots LAST_LC  *)
(* and LAST_SRIRACHA_EMBED_MESSAGE, and the framework commands.            *)
(*                                                                         *)
(* Text is a sequence of one-character strings, so that starts_with, the   *)
(* nom combinators, u32 parsing and formatting are computed character by   *)
(* character as the code computes them.                                    *)
(***************************************************************************)
EXTENDS Integers, Sequences, FiniteSets, TLC

VARIABLES
    LAST_LC,                      \* the String inside the RwLock
    LAST_SRIRACHA_EMBED_MESSAGE,  \* Option<Message>: <<>> is None, <<m>> is Some(m)
    embed_lock,                   \* state of the RwLock around the embed slot
    tasks,                        \* every handler invocation so far, in order of start
    probe,                        \* one call of author_get: its input and its result
    lc_lock,                      \* state of the RwLock around LAST_LC
    reactions,                    \* the bot's reactions: pairs <<message id, emoji>>
    checks                        \* calls of the two classifier checks, with their answers

vars == <<LAST_LC, LAST_SRIRACHA_EMBED_MESSAGE, embed_lock, tasks, probe, lc_lock,
          reactions, checks>>

\* ------------------------------------------------------------------ bounds
MaxTargetLen == 3
MaxAuthorLen == 3
MaxTasks == 2
MaxCmdTasks == 2
MaxRetryTasks == 3
NumWorkers == 2
MaxChecks == 2
MaxClassTasks == 1
MaxLcTasks == 3
MaxReactTasks == 3
MaxSleepTasks == 3

\* -------------------------------------------------------------------- text
Drop(s, n) == SubSeq(s, n + 1, Len(s))
Take(s, n) == SubSeq(s, 1, n)

\* str::starts_with
starts_with(s, p) == Len(s) >= Len(p) /\ Take(s, Len(p)) = p

\* FindSubstring::find_substring: byte offset of the first occurrence, -1 for None
find_substring(s, t) ==
    LET hits == {i \in 0..(Len(s) - Len(t)) : SubSeq(s, i + 1, i + Len(t)) = t}
    IN IF hits = {} THEN -1 ELSE CHOOSE i \in hits : \A j \in hits : i <= j

\* IResult<&str, &str>
Err == [ok |-> FALSE, rest |-> <<>>, out |-> <<>>]
Ok(rest, out) == [ok |-> TRUE, rest |-> rest, out |-> out]

\* nom::bytes::complete::tag
tag(t, input) ==
    IF starts_with(input, t) THEN Ok(Drop(input, Len(t)), t) ELSE Err

\* nom::bytes::complete::take_until1: fails when the pattern is absent or at offset 0
take_until1(t, input) ==
    LET i == find_substring(input, t)
    IN IF i < 1 THEN Err ELSE Ok(Drop(input, i), Take(input, i))

LookingUpSp == <<"L", "o", "o", "k", "i", "n", "g", " ", "u", "p", " ">>
By == <<" ", "b", "y", " ">>
Dot == <<".">>

\* author_get with the terminator left in the author
author_get_with_dot(input) ==
    LET r1 == tag(LookingUpSp, input)
        r2 == take_until1(By, r1.rest)
        r3 == tag(By, r2.rest)
        r4 == take_until1(Dot, r3.rest)
    IN IF ~r1.ok \/ ~r2.ok \/ ~r3.ok \/ ~r4.ok THEN Err
       ELSE Ok(Drop(r4.rest, 1), Append(r4.out, "."))

\* author_get taking the rest of the text when there is no terminator
author_get_to_end(input) ==
    LET r1 == tag(LookingUpSp, input)
        r2 == take_until1(By, r1.rest)
        r3 == tag(By, r2.rest)
        r4 == take_until1(Dot, r3.rest)
    IN IF ~r1.ok \/ ~r2.ok \/ ~r3.ok THEN Err
       ELSE IF ~r4.ok /\ r3.rest # <<>> /\ r3.rest[1] # "." THEN Ok(<<>>, r3.rest)
       ELSE r4

\* author_get reading the author up to the last '.' of the text
author_get_last_dot(input) ==
    LET r1 == tag(LookingUpSp, input)
        r2 == take_until1(By, r1.rest)
        r3 == tag(By, r2.rest)
        dots == {i \in 1..Len(r3.rest) : r3.rest[i] = "."}
        last == CHOOSE i \in dots : \A j \in dots : j <= i
    IN IF ~r1.ok \/ ~r2.ok \/ ~r3.ok \/ dots = {} \/ 1 \in dots THEN Err
       ELSE Ok(Drop(r3.rest, last - 1), Take(r3.rest, last - 1))

author_get(input) ==
    LET r1 == tag(LookingUpSp, input)
        r2 == take_until1(By, r1.rest)
        r3 == tag(By, r2.rest)
        r4 == take_until1(Dot, r3.rest)
    IN IF ~r1.ok THEN Err
       ELSE IF ~r2.ok THEN Err
       ELSE IF ~r3.ok THEN Err
       ELSE r4

\* ------------------------------------------------------------- u32, ids
\* A u32 is kept as two 16-bit limbs, hi * 65536 + lo, so that the overflow
\* check of the parse is the one the 32-bit type makes.
Limb == 65536

u32(hi, lo) == [hi |-> hi, lo |-> lo]

DigitChars == <<"0", "1", "2", "3", "4", "5", "6", "7", "8", "9">>

IsDigit(c) == \E d \in 1..10 : DigitChars[d] = c

\* char::to_digit(10)
to_digit(c) == (CHOOSE d \in 1..10 : DigitChars[d] = c) - 1

\* checked_mul(10) then checked_add(d): [ok, v]
checked_mul10_add(v, d) ==
    LET lo10 == v.lo * 10 + d
        hi10 == v.hi * 10 + (lo10 \div Limb)
    IN [ok |-> hi10 < Limb, v |-> u32(hi10 % Limb, lo10 % Limb)]

RECURSIVE from_digits(_, _)
from_digits(acc, digits) ==
    IF digits = <<>> THEN [ok |-> TRUE, v |-> acc]
    ELSE IF ~IsDigit(Head(digits)) THEN [ok |-> FALSE, v |-> u32(0, 0)]
    ELSE LET next == checked_mul10_add(acc, to_digit(Head(digits)))
         IN IF ~next.ok THEN [ok |-> FALSE, v |-> u32(0, 0)]
            ELSE from_digits(next.v, Tail(digits))

\* <u32 as FromStr>::from_str: empty, a lone sign, '-', a non-digit and a value
\* above u32::MAX are errors; one leading '+' is accepted
u32_from_str(src) ==
    IF src = <<>> THEN [ok |-> FALSE, v |-> u32(0, 0)]
    ELSE IF Len(src) = 1 /\ src[1] \in {"+", "-"} THEN [ok |-> FALSE, v |-> u32(0, 0)]
    ELSE from_digits(u32(0, 0), IF src[1] = "+" THEN Tail(src) ELSE src)

\* <u32 as Display>::fmt: decimal, no sign, no leading zeros
RECURSIVE u32_fmt(_)
u32_fmt(v) ==
    LET t == (v.hi % 10) * Limb + v.lo
        q == u32(v.hi \div 10, t \div 10)
        last == <<DigitChars[(t % 10) + 1]>>
    IN IF q = u32(0, 0) THEN last ELSE u32_fmt(q) \o last

\* get_id with 0 as the default
get_id_default0(args) ==
    IF args = <<>> THEN [ok |-> TRUE, v |-> u32(0, 0)] ELSE u32_from_str(args[1])

\* get_id taking a bad argument for the default
get_id_lenient(args) ==
    IF args = <<>> \/ ~u32_from_str(args[1]).ok THEN [ok |-> TRUE, v |-> u32(0, 1)]
    ELSE u32_from_str(args[1])

get_id(args) ==
    IF args = <<>> THEN [ok |-> TRUE, v |-> u32(0, 1)] ELSE u32_from_str(args[1])

\* ------------------------------------------------- the commands' format!s
Sauce == <<"s", "a", "u", "c", "e", " ">>
Move == <<"m", "o", "v", "e", " ">>
Delete == <<"d", "e", "l", "e", "t", "e", " ">>
Lc == <<"l", "c", " ">>

lc_list_fmt(id) == Sauce \o Lc \o <<"3", "#">> \o u32_fmt(id)
lc_move_same_stage(id) == Sauce \o Move \o <<"3", "#">> \o u32_fmt(id) \o <<" ", "3">>
lc_move_fmt(id) == Sauce \o Move \o <<"3", "#">> \o u32_fmt(id) \o <<" ", "4">>
lc_delete_fmt(id) == Sauce \o Delete \o <<"3", "#">> \o u32_fmt(id)
st_list_with_lc(id) == Sauce \o Lc \o <<"2", "#">> \o u32_fmt(id)
st_list_fmt(id) == Sauce \o <<"2", "#">> \o u32_fmt(id)
st_move_fmt(id) == Sauce \o Move \o <<"2", "#">> \o u32_fmt(id) \o <<" ", "3">>
st_delete_fmt(id) == Sauce \o Delete \o <<"2", "#">> \o u32_fmt(id)
qc_list_fmt(id) == Sauce \o <<"1", "#">> \o u32_fmt(id)
qc_move_fmt(id) == Sauce \o Move \o <<"1", "#">> \o u32_fmt(id) \o <<" ", "2">>
qc_delete_fmt(id) == Sauce \o Delete \o <<"1", "#">> \o u32_fmt(id)

SauceQa == <<"s", "a", "u", "c", "e", " ", "-", "q", "a", " ">>
CouldNotFindAuthor ==
    <<"C", "o", "u", "l", "d", " ", "n", "o", "t", " ", "f", "i", "n", "d", " ",
      "a", "u", "t", "h", "o", "r">>
LookingUp == <<"L", "o", "o", "k", "i", "n", "g", " ", "u", "p">>
DotLc == <<".", "l", "c">>
US == <<"U", "S">>   \* the two regional-indicator letters of the flag emoji
JP == <<"J", "P">>
SettleSecs == 3

\* ------------------------------------------------------------- identities
BotNames == {"sriracha", "ohsheet", "lc", "fort checker"}

BOTS ==
    [n \in BotNames |->
        CASE n = "sriracha" -> "607661949194469376"
          [] n = "ohsheet" -> "640402425395675178"
          [] n = "lc" -> "661826254215053324"
          [] n = "fort checker" -> "1014282115086565486"]

is_sriracha_bot_alone(user) == user.id = BOTS["sriracha"]

\* is_sriracha_bot letting lc through as well
is_sriracha_bot_or_lc(user) == user.id \in {BOTS["sriracha"], BOTS["ohsheet"], BOTS["lc"]}

is_sriracha_bot(user) == user.id \in {BOTS["sriracha"], BOTS["ohsheet"]}

\* is_lc_bot without the fort checker
is_lc_bot_without_fort(user) == user.id \in {BOTS["ohsheet"], BOTS["lc"]}

is_lc_bot(user) == user.id \in {BOTS["ohsheet"], BOTS["lc"], BOTS["fort checker"]}

\* ------------------------------------------------------------------ state
NotCalled == [ok |-> FALSE, rest |-> <<>>, out |-> <<"?">>]

NoProbe == [target |-> <<>>, author |-> <<>>, dot |-> FALSE, input |-> <<>>,
            result |-> NotCalled]

\* tokio::sync::RwLock around the embed slot: the tasks holding a read guard, the
\* task holding the write guard (0: none) and the tasks waiting, first come first
\* served
Unlocked == [readers |-> {}, writer |-> 0, queue |-> <<>>]

\* an RwLock handing out read guards while the write guard is held
RECURSIVE Grant_readers_always(_)
Grant_readers_always(l) ==
    IF l.queue = <<>> THEN l
    ELSE LET h == Head(l.queue)
         IN IF h.mode = "read"
            THEN Grant_readers_always(
                    [l EXCEPT !.readers = @ \cup {h.task}, !.queue = Tail(@)])
            ELSE IF l.readers = {} /\ l.writer = 0
                 THEN [l EXCEPT !.writer = h.task, !.queue = Tail(@)]
                 ELSE l

\* an RwLock handing out the write guard while read guards are held
RECURSIVE Grant_writer_always(_)
Grant_writer_always(l) ==
    IF l.queue = <<>> \/ l.writer # 0 THEN l
    ELSE LET h == Head(l.queue)
         IN IF h.mode = "read"
            THEN Grant_writer_always(
                    [l EXCEPT !.readers = @ \cup {h.task}, !.queue = Tail(@)])
            ELSE [l EXCEPT !.writer = h.task, !.queue = Tail(@)]

RECURSIVE Grant(_)
Grant(l) ==
    IF l.queue = <<>> \/ l.writer # 0 THEN l
    ELSE LET h == Head(l.queue)
         IN IF h.mode = "read"
            THEN Grant([l EXCEPT !.readers = @ \cup {h.task}, !.queue = Tail(@)])
            ELSE IF l.readers = {}
                 THEN [l EXCEPT !.writer = h.task, !.queue = Tail(@)]
                 ELSE l

\* RwLock::read / RwLock::write: join the queue, and hold the guard at once when
\* nothing is ahead
Acquire(l, t, mode) == Grant([l EXCEPT !.queue = Append(@, [task |-> t, mode |-> mode])])

\* dropping a guard
Release(l, t) ==
    Grant([l EXCEPT !.readers = @ \ {t}, !.writer = IF @ = t THEN 0 ELSE @])

SessionInit ==
    /\ LAST_LC = <<>>
    /\ LAST_SRIRACHA_EMBED_MESSAGE = <<>>
    /\ embed_lock = Unlocked
    /\ tasks = <<>>
    /\ lc_lock = Unlocked
    /\ reactions = {}
    /\ checks = <<>>

\* One invocation of a handler: the Message it was given, the command's Args,
\* where it is suspended, its locals, the calls it has made, and what it returned.
NewTask(kind, msg, args) ==
    [kind |-> kind, msg |-> msg, args |-> args, pc |-> "start",
     local |-> <<>>, target |-> 0, trace |-> <<>>, result |-> "running"]

NumChannels == 2
ChannelOf(id) == ((id - 1) % NumChannels) + 1

Message(id, author, content, embeds) ==
    [id |-> id, channel_id |-> ChannelOf(id), author |-> [id |-> author],
     content |-> content, embeds |-> embeds]

\* the calls a handler makes, in order
CallSleep(secs) == [op |-> "sleep", target |-> secs, arg |-> <<>>, ok |-> TRUE]
CallSay(channel, text, ok) == [op |-> "say", target |-> channel, arg |-> text, ok |-> ok]
CallDeleteReactionEmoji(message, emoji, ok) ==
    [op |-> "delete_reaction_emoji", target |-> message, arg |-> emoji, ok |-> ok]
CallReact(message, emoji, ok) == [op |-> "react", target |-> message, arg |-> emoji, ok |-> ok]

Finish(t, trace, result) == [t EXCEPT !.pc = "done", !.trace = trace, !.result = result]

\* `x.await?` at the end of a command: the call's error is the command's
try_swallowed(ok) == "Ok"
try(ok) == IF ok THEN "Ok" ELSE "HttpError"

UserId == "1"
NextId == Len(tasks) + 1
Running == {i \in 1..Len(tasks) : tasks[i].pc # "done"}

\* std::thread::sleep keeps the worker thread of the runtime it is called on; any
\* other step of any handler needs a worker thread that is not asleep
Sleeping == {i \in 1..Len(tasks) : tasks[i].pc = "sleep"}
FreeWorker == Cardinality(Sleeping) < NumWorkers

\* --------------------------------------------------------- Handler::message
\* What the handler decides before its first suspension.
\* route looking at the embeds before the ".lc" prefix
route_embed_first(msg) ==
    IF is_sriracha_bot(msg.author)
    THEN IF msg.embeds # <<>> THEN "embed"
         ELSE IF starts_with(msg.content, DotLc) THEN "last_lc"
         ELSE "nothing"
    ELSE IF is_lc_bot(msg.author) /\ starts_with(msg.content, LookingUp)
         THEN IF author_get(msg.content).ok THEN "author" ELSE "no_author"
    ELSE "nothing"

route(msg) ==
    IF is_sriracha_bot(msg.author)
    THEN IF starts_with(msg.content, DotLc) THEN "last_lc"
         ELSE IF msg.embeds # <<>> THEN "embed"
         ELSE "nothing"
    ELSE IF is_lc_bot(msg.author) /\ starts_with(msg.content, LookingUp)
         THEN IF author_get(msg.content).ok THEN "author" ELSE "no_author"
    ELSE "nothing"

message(U, max) ==
    /\ Len(tasks) < max
    /\ FreeWorker
    /\ \E author \in U.authors, content \in U.texts, embeds \in U.embeds, ok \in U.outcomes :
          LET msg == Message(NextId, author, content, embeds)
              t == NewTask("message", msg, <<>>)
              r == route(msg)
          IN /\ r \in {"nothing", "last_lc", "embed", "author"} => ok = TRUE
             /\ LAST_LC' = IF r = "last_lc" THEN msg.content ELSE LAST_LC
             /\ embed_lock' = IF r = "embed" THEN Acquire(embed_lock, NextId, "write")
                              ELSE embed_lock
             /\ tasks' = Append(tasks,
                    CASE r = "last_lc" -> Finish(t, <<>>, "unit")
                      [] r = "embed" -> [t EXCEPT !.pc = "write"]
                      [] r = "author" ->
                            [t EXCEPT !.pc = "sleep", !.local = author_get(msg.content).out]
                      [] r = "no_author" ->
                            Finish(t, <<CallSay(msg.channel_id, CouldNotFindAuthor, ok)>>, "unit")
                      [] r = "nothing" -> Finish(t, <<>>, "unit"))
             /\ UNCHANGED <<LAST_SRIRACHA_EMBED_MESSAGE, probe, lc_lock, reactions, checks>>

\* the write guard is held: *last_sriracha_embed_message = Some(msg), guard dropped
message_write(i) ==
    /\ FreeWorker
    /\ tasks[i].kind = "message"
    /\ tasks[i].pc = "write"
    /\ embed_lock.writer = i
    /\ LAST_SRIRACHA_EMBED_MESSAGE' = <<tasks[i].msg>>
    /\ embed_lock' = Release(embed_lock, i)
    /\ tasks' = [tasks EXCEPT ![i] = Finish(@, <<>>, "unit")]
    /\ UNCHANGED <<LAST_LC, probe, lc_lock, reactions, checks>>

\* the calls of the Ok arm, in the order made
author_calls(channel, author, ok) ==
    <<CallSleep(SettleSecs), CallSay(channel, SauceQa \o author, ok)>>

\* sleep returns; say(...).await; `let _ =` drops its result
message_say(i) ==
    /\ tasks[i].kind = "message"
    /\ tasks[i].pc = "sleep"
    /\ \E ok \in BOOLEAN :
          tasks' = [tasks EXCEPT ![i] =
                       Finish(@, author_calls(@.msg.channel_id, @.local, ok), "unit")]
    /\ UNCHANGED <<LAST_LC, LAST_SRIRACHA_EMBED_MESSAGE, embed_lock, probe, lc_lock, reactions, checks>>

\* ------------------------------------------------------------- commands
\* list, move and delete of one stage: get_id(args)?, then say(format!(..)).await?
format(kind, id) ==
    CASE kind = "lc_list" -> lc_list_fmt(id)
      [] kind = "lc_move" -> lc_move_fmt(id)
      [] kind = "lc_delete" -> lc_delete_fmt(id)
      [] kind = "st_list" -> st_list_fmt(id)
      [] kind = "st_move" -> st_move_fmt(id)
      [] kind = "st_delete" -> st_delete_fmt(id)
      [] kind = "qc_list" -> qc_list_fmt(id)
      [] kind = "qc_move" -> qc_move_fmt(id)
      [] kind = "qc_delete" -> qc_delete_fmt(id)

StageCommand(kind, U, max) ==
    /\ Len(tasks) < max
    /\ FreeWorker
    /\ kind \in U.commands
    /\ \E args \in U.args, ok \in U.outcomes :
          LET msg == Message(NextId, UserId, <<>>, <<>>)
              t == NewTask(kind, msg, args)
              id == get_id(args)
          IN /\ ~id.ok => ok = TRUE
             /\ tasks' = Append(tasks,
                    IF ~id.ok THEN Finish(t, <<>>, "ArgError")
                    ELSE Finish(t, <<CallSay(msg.channel_id, format(kind, id.v), ok)>>, try(ok)))
    /\ UNCHANGED <<LAST_LC, LAST_SRIRACHA_EMBED_MESSAGE, embed_lock, probe, lc_lock, reactions, checks>>

lc_list(U, max) == StageCommand("lc_list", U, max)
lc_move(U, max) == StageCommand("lc_move", U, max)
lc_delete(U, max) == StageCommand("lc_delete", U, max)
st_list(U, max) == StageCommand("st_list", U, max)
st_move(U, max) == StageCommand("st_move", U, max)
st_delete(U, max) == StageCommand("st_delete", U, max)
qc_list(U, max) == StageCommand("qc_list", U, max)
qc_move(U, max) == StageCommand("qc_move", U, max)
qc_delete(U, max) == StageCommand("qc_delete", U, max)

\* LAST_LC.read().await.clone()
lc_retry(U, max) ==
    /\ Len(tasks) < max
    /\ FreeWorker
    /\ "lc_retry" \in U.commands
    /\ \E args \in U.args :
          tasks' = Append(tasks,
              [NewTask("lc_retry", Message(NextId, UserId, <<>>, <<>>), args)
                  EXCEPT !.pc = "say", !.local = LAST_LC])
    /\ UNCHANGED <<LAST_LC, LAST_SRIRACHA_EMBED_MESSAGE, embed_lock, probe, lc_lock, reactions, checks>>

\* msg.channel_id.say(&ctx.http, retried_message).await?
lc_retry_say(i) ==
    /\ FreeWorker
    /\ tasks[i].kind = "lc_retry"
    /\ tasks[i].pc = "say"
    /\ \E ok \in BOOLEAN :
          tasks' = [tasks EXCEPT ![i] =
                       Finish(@, <<CallSay(@.msg.channel_id, @.local, ok)>>, try(ok))]
    /\ UNCHANGED <<LAST_LC, LAST_SRIRACHA_EMBED_MESSAGE, embed_lock, probe, lc_lock, reactions, checks>>

\* en and jp: LAST_SRIRACHA_EMBED_MESSAGE.read().await
Toggle(kind, U, max) ==
    /\ Len(tasks) < max
    /\ FreeWorker
    /\ kind \in U.commands
    /\ tasks' = Append(tasks,
          [NewTask(kind, Message(NextId, UserId, <<>>, <<>>), <<>>) EXCEPT !.pc = "read"])
    /\ embed_lock' = Acquire(embed_lock, NextId, "read")
    /\ UNCHANGED <<LAST_LC, LAST_SRIRACHA_EMBED_MESSAGE, probe, lc_lock, reactions, checks>>

\* `if let Some(real_message) = &*last_sriracha_embed_message`
if_let_Some_or_default(slot) ==
    IF slot = <<>> THEN <<Message(0, UserId, <<>>, <<>>)>> ELSE slot

if_let_Some(slot) == slot

\* the read guard is held: nothing to do for None, else delete_reaction_emoji,
\* whose result `let _ =` drops
ToggleDelete(i, kind, emoji) ==
    /\ FreeWorker
    /\ tasks[i].kind = kind
    /\ tasks[i].pc = "read"
    /\ i \in embed_lock.readers
    /\ LET real_message == if_let_Some(LAST_SRIRACHA_EMBED_MESSAGE)
       IN IF real_message = <<>>
          THEN /\ tasks' = [tasks EXCEPT ![i] = Finish(@, <<>>, "Ok")]
               /\ embed_lock' = Release(embed_lock, i)
               /\ UNCHANGED reactions
          ELSE /\ \E ok \in BOOLEAN :
                     /\ tasks' = [tasks EXCEPT ![i] =
                           [@ EXCEPT !.pc = "react", !.target = real_message[1].id,
                                     !.trace = <<CallDeleteReactionEmoji(
                                                    real_message[1].id, emoji, ok)>>]]
                     /\ reactions' = IF ok THEN reactions \ {<<real_message[1].id, emoji>>}
                                     ELSE reactions
               /\ UNCHANGED embed_lock
    /\ UNCHANGED <<LAST_LC, LAST_SRIRACHA_EMBED_MESSAGE, probe, lc_lock, checks>>

\* real_message.react(..).await?, then the guard is dropped
ToggleReact(i, kind, emoji) ==
    /\ FreeWorker
    /\ tasks[i].kind = kind
    /\ tasks[i].pc = "react"
    /\ \E ok \in BOOLEAN :
          /\ tasks' = [tasks EXCEPT ![i] =
                Finish(@, Append(@.trace, CallReact(@.target, emoji, ok)), try(ok))]
          /\ reactions' = IF ok THEN reactions \cup {<<tasks[i].target, emoji>>}
                          ELSE reactions
    /\ embed_lock' = Release(embed_lock, i)
    /\ UNCHANGED <<LAST_LC, LAST_SRIRACHA_EMBED_MESSAGE, probe, lc_lock, checks>>

en(U, max) == Toggle("en", U, max)
en_delete(i) == ToggleDelete(i, "en", US)
en_react_jp(i) == ToggleReact(i, "en", JP)
en_react(i) == ToggleReact(i, "en", US)
jp(U, max) == Toggle("jp", U, max)
jp_delete(i) == ToggleDelete(i, "jp", JP)
jp_react(i) == ToggleReact(i, "jp", JP)

\* ------------------------------------------------- the inputs of each run
Sriracha == BOTS["sriracha"]
OhSheet == BOTS["ohsheet"]
LcBot == BOTS["lc"]
FortChecker == BOTS["fort checker"]

Foo == <<"F", "o", "o">>
Bar == <<"B", "a", "r">>
LookingUpBy(x, y, dot) == LookingUpSp \o x \o By \o y \o (IF dot THEN Dot ELSE <<>>)

LcA == <<".", "l", "c", " ", "a">>
LcB == <<".", "l", "c", " ", "b">>
Hi == <<"h", "i">>
NoEmbed == <<>>
OneEmbed == <<"embed">>
NoArgs == <<>>

StageCommands ==
    {"lc_list", "lc_move", "lc_delete", "st_list", "st_move", "st_delete",
     "qc_list", "qc_move", "qc_delete"}

\* the router and the dispatcher together
MainU ==
    [authors |-> {Sriracha, OhSheet, LcBot, FortChecker, UserId},
     texts |-> {LcA, LookingUpBy(Foo, Bar, TRUE), LookingUpBy(Foo, Bar, FALSE), Hi},
     embeds |-> {NoEmbed, OneEmbed},
     commands |-> StageCommands \cup {"lc_retry", "en", "jp"},
     args |-> {NoArgs},
     outcomes |-> BOOLEAN]

Init == SessionInit /\ probe = NoProbe

Next ==
    \/ message(MainU, MaxTasks)
    \/ lc_list(MainU, MaxTasks)
    \/ lc_move(MainU, MaxTasks)
    \/ lc_delete(MainU, MaxTasks)
    \/ lc_retry(MainU, MaxTasks)
    \/ st_list(MainU, MaxTasks)
    \/ st_move(MainU, MaxTasks)
    \/ st_delete(MainU, MaxTasks)
    \/ qc_list(MainU, MaxTasks)
    \/ qc_move(MainU, MaxTasks)
    \/ qc_delete(MainU, MaxTasks)
    \/ en(MainU, MaxTasks)
    \/ jp(MainU, MaxTasks)
    \/ \E i \in Running : message_write(i)
    \/ \E i \in Running : message_say(i)
    \/ \E i \in Running : lc_retry_say(i)
    \/ \E i \in Running : en_delete(i)
    \/ \E i \in Running : en_react(i)
    \/ \E i \in Running : jp_delete(i)
    \/ \E i \in Running : jp_react(i)

Spec == Init /\ [][Next]_vars

\* the stage commands over many arguments, after a status message or none
Tokens ==
    {<<"0">>, <<"1">>, <<"2">>, <<"5">>, <<"0", "0", "7">>, <<"+", "5">>,
     <<"-", "1">>, <<"x">>,
     <<"4", "2", "9", "4", "9", "6", "7", "2", "9", "5">>,
     <<"4", "2", "9", "4", "9", "6", "7", "2", "9", "6">>}

CmdU ==
    [authors |-> {Sriracha},
     texts |-> {LcA, Hi},
     embeds |-> {OneEmbed},
     commands |-> StageCommands,
     args |-> {NoArgs} \cup {<<tok>> : tok \in Tokens},
     outcomes |-> {TRUE}]

CmdNext ==
    \/ message(CmdU, MaxCmdTasks)
    \/ lc_list(CmdU, MaxCmdTasks)
    \/ lc_move(CmdU, MaxCmdTasks)
    \/ lc_delete(CmdU, MaxCmdTasks)
    \/ st_list(CmdU, MaxCmdTasks)
    \/ st_move(CmdU, MaxCmdTasks)
    \/ st_delete(CmdU, MaxCmdTasks)
    \/ qc_list(CmdU, MaxCmdTasks)
    \/ qc_move(CmdU, MaxCmdTasks)
    \/ qc_delete(CmdU, MaxCmdTasks)
    \/ \E i \in Running : message_write(i)

CmdSpec == Init /\ [][CmdNext]_vars

\* status messages and lc-retry
RetryU ==
    [authors |-> {Sriracha, OhSheet, LcBot},
     texts |-> {LcA, LcB, Hi},
     embeds |-> {NoEmbed, OneEmbed},
     commands |-> {"lc_retry"},
     args |-> {NoArgs},
     outcomes |-> BOOLEAN]

RetryNext ==
    \/ message(RetryU, MaxRetryTasks)
    \/ lc_retry(RetryU, MaxRetryTasks)
    \/ \E i \in Running : message_write(i)
    \/ \E i \in Running : lc_retry_say(i)

RetrySpec == Init /\ [][RetryNext]_vars

\* ------------------------------------------------------- the parser alone
Alphabet == {" ", "b", "y", "."}

RECURSIVE StrsOfLen(_)
StrsOfLen(n) ==
    IF n = 0 THEN {<<>>}
    ELSE {Append(s, c) : s \in StrsOfLen(n - 1), c \in Alphabet}

StrsUpTo(n) == UNION {StrsOfLen(k) : k \in 1..n}

Widget == <<"W", "i", "d", "g", "e", "t">>
JSmith == <<"J", ".", " ", "S", "m", "i", "t", "h">>
Targets == StrsUpTo(MaxTargetLen) \cup {Widget, Foo}
Authors == StrsUpTo(MaxAuthorLen) \cup {JSmith, Bar}

ParseInit ==
    /\ SessionInit
    /\ \E x \in Targets, y \in Authors, d \in BOOLEAN :
          probe = [target |-> x, author |-> y, dot |-> d,
                   input |-> LookingUpBy(x, y, d), result |-> NotCalled]

Parse ==
    /\ probe.result = NotCalled
    /\ probe' = [probe EXCEPT !.result = author_get(probe.input)]
    /\ UNCHANGED <<LAST_LC, LAST_SRIRACHA_EMBED_MESSAGE, embed_lock, tasks, lc_lock, reactions, checks>>

ParseNext == Parse

ParseSpec == ParseInit /\ [][ParseNext]_vars

\* ------------------------------------------- LAST_LC at the grain of its lock
\* message and lc_retry run on a multi-threaded runtime; in the runs above the
\* write of LAST_LC and the read of it are each one step. Here they are taken
\* apart: the guard is asked for, then the slot is stored to or cloned from while
\* the guard is held, and a store is not one step of the machine: half way the
\* slot holds the head of the new text and the tail of the old one.
LcAB == <<".", "l", "c", " ", "a", "b">>
LcBA == <<".", "l", "c", " ", "b", "a">>

LcU ==
    [authors |-> {Sriracha, OhSheet},
     texts |-> {LcAB, LcBA},
     embeds |-> {NoEmbed},
     commands |-> {"lc_retry"},
     args |-> {NoArgs},
     outcomes |-> BOOLEAN]

Torn(old, new) == Take(new, Len(new) - 1) \o Drop(old, Len(new) - 1)

\* let mut last_lc = LAST_LC.write().await
message_last_lc(U, max) ==
    /\ Len(tasks) < max
    /\ FreeWorker
    /\ \E author \in U.authors, content \in U.texts, embeds \in U.embeds :
          LET msg == Message(NextId, author, content, embeds)
          IN /\ route(msg) = "last_lc"
             /\ tasks' = Append(tasks, [NewTask("message", msg, <<>>) EXCEPT !.pc = "lc_write"])
             /\ lc_lock' = Acquire(lc_lock, NextId, "write")
    /\ UNCHANGED <<LAST_LC, LAST_SRIRACHA_EMBED_MESSAGE, embed_lock, probe, reactions, checks>>

\* *last_lc = msg.content.clone(), begun
message_last_lc_store(i) ==
    /\ FreeWorker
    /\ tasks[i].kind = "message"
    /\ tasks[i].pc = "lc_write"
    /\ lc_lock.writer = i
    /\ LAST_LC' = Torn(LAST_LC, tasks[i].msg.content)
    /\ tasks' = [tasks EXCEPT ![i] = [@ EXCEPT !.pc = "lc_store"]]
    /\ UNCHANGED <<LAST_SRIRACHA_EMBED_MESSAGE, embed_lock, probe, lc_lock, reactions, checks>>

\* the store completes and the write guard is dropped
message_last_lc_drop(i) ==
    /\ FreeWorker
    /\ tasks[i].kind = "message"
    /\ tasks[i].pc = "lc_store"
    /\ LAST_LC' = tasks[i].msg.content
    /\ lc_lock' = Release(lc_lock, i)
    /\ tasks' = [tasks EXCEPT ![i] = Finish(@, <<>>, "unit")]
    /\ UNCHANGED <<LAST_SRIRACHA_EMBED_MESSAGE, embed_lock, probe, reactions, checks>>

\* LAST_LC.read().await
lc_retry_read(U, max) ==
    /\ Len(tasks) < max
    /\ FreeWorker
    /\ "lc_retry" \in U.commands
    /\ \E args \in U.args :
          tasks' = Append(tasks,
              [NewTask("lc_retry", Message(NextId, UserId, <<>>, <<>>), args)
                  EXCEPT !.pc = "lc_read"])
    /\ lc_lock' = Acquire(lc_lock, NextId, "read")
    /\ UNCHANGED <<LAST_LC, LAST_SRIRACHA_EMBED_MESSAGE, embed_lock, probe, reactions, checks>>

\* .clone() under the read guard, which is a temporary of the statement
lc_retry_clone(i) ==
    /\ FreeWorker
    /\ tasks[i].kind = "lc_retry"
    /\ tasks[i].pc = "lc_read"
    /\ i \in lc_lock.readers
    /\ tasks' = [tasks EXCEPT ![i] = [@ EXCEPT !.pc = "say", !.local = LAST_LC]]
    /\ lc_lock' = Release(lc_lock, i)
    /\ UNCHANGED <<LAST_LC, LAST_SRIRACHA_EMBED_MESSAGE, embed_lock, probe, reactions, checks>>

LcNext ==
    \/ message_last_lc(LcU, MaxLcTasks)
    \/ \E i \in Running : message_last_lc_store(i)
    \/ \E i \in Running : message_last_lc_drop(i)
    \/ lc_retry_read(LcU, MaxLcTasks)
    \/ \E i \in Running : lc_retry_clone(i)
    \/ \E i \in Running : lc_retry_say(i)

LcSpec == Init /\ [][LcNext]_vars

\* --------------------------------------------- the toggles and the tracker
ReactU ==
    [authors |-> {Sriracha},
     texts |-> {Hi},
     embeds |-> {OneEmbed},
     commands |-> {"en", "jp"},
     args |-> {NoArgs},
     outcomes |-> BOOLEAN]

ReactNext ==
    \/ message(ReactU, MaxReactTasks)
    \/ \E i \in Running : message_write(i)
    \/ en(ReactU, MaxReactTasks)
    \/ \E i \in Running : en_delete(i)
    \/ \E i \in Running : en_react(i)
    \/ jp(ReactU, MaxReactTasks)
    \/ \E i \in Running : jp_delete(i)
    \/ \E i \in Running : jp_react(i)

\* the runtime polls every handler that can go on, and every transport call
\* returns
ReactFairness ==
    \A i \in 1..MaxReactTasks :
        /\ WF_vars(i \in Running /\ message_write(i))
        /\ WF_vars(i \in Running /\ en_delete(i))
        /\ WF_vars(i \in Running /\ en_react(i))
        /\ WF_vars(i \in Running /\ jp_delete(i))
        /\ WF_vars(i \in Running /\ jp_react(i))

ReactSpec == Init /\ [][ReactNext]_vars /\ ReactFairness

\* ------------------------------------- more confirmations than worker threads
SleepU ==
    [authors |-> {LcBot, FortChecker},
     texts |-> {LookingUpBy(Foo, Bar, TRUE), LookingUpBy(Foo, Bar, FALSE)},
     embeds |-> {NoEmbed},
     commands |-> {"lc_list", "lc_retry"},
     args |-> {NoArgs},
     outcomes |-> BOOLEAN]

SleepNext ==
    \/ message(SleepU, MaxSleepTasks)
    \/ \E i \in Running : message_say(i)
    \/ lc_list(SleepU, MaxSleepTasks)
    \/ lc_retry(SleepU, MaxSleepTasks)
    \/ \E i \in Running : lc_retry_say(i)

SleepSpec == Init /\ [][SleepNext]_vars

\* ------------------------------------------------- the two checks alone
\* message asks is_sriracha_bot(&msg.author) and is_lc_bot(&msg.author); here the
\* two are asked of any author at any moment of a session, and the answers kept
Stranger == "607661949194469377"

ClassU ==
    [authors |-> {Sriracha, OhSheet, LcBot, FortChecker, UserId, Stranger},
     texts |-> {LcA, Hi},
     embeds |-> {OneEmbed},
     commands |-> {},
     args |-> {NoArgs},
     outcomes |-> BOOLEAN]

classify(U) ==
    /\ Len(checks) < MaxChecks
    /\ \E id \in U.authors :
          LET author == [id |-> id]
          IN checks' = Append(checks, [id |-> id, at |-> Len(tasks),
                                       is_sriracha_bot |-> is_sriracha_bot(author),
                                       is_lc_bot |-> is_lc_bot(author)])
    /\ UNCHANGED <<LAST_LC, LAST_SRIRACHA_EMBED_MESSAGE, embed_lock, tasks, probe, lc_lock,
                   reactions>>

ClassNext ==
    \/ classify(ClassU)
    \/ message(ClassU, MaxClassTasks)
    \/ \E i \in Running : message_write(i)

ClassSpec == Init /\ [][ClassNext]_vars

Called == probe.result # NotCalled

Contains(s, t) == find_substring(s, t) >= 0

\* C1 as stated: every "Looking up {X} by {Y}." with non-empty X and Y parses to
\* exactly Y, whatever X and Y contain.
C1_AsStated ==
    (Called /\ probe.dot) => (probe.result.ok /\ probe.result.out = probe.author)

\* C1, amended: when X followed by a space holds no " by " and Y holds no '.',
\* "Looking up {X} by {Y}." parses to exactly Y.
C1_AuthorReturned ==
    (/\ Called
     /\ probe.dot
     /\ ~Contains(Append(probe.target, " "), By)
     /\ ~Contains(probe.author, Dot))
    => (probe.result.ok /\ probe.result.out = probe.author)

C1_Witness ==
    /\ Called
    /\ probe.dot
    /\ probe.target = Foo
    /\ probe.author = Bar
    /\ probe.result.out = Bar

\* C2 as stated: "Looking up {X} by {Y}" without the final '.' never parses.
C2_AsStated ==
    (Called /\ ~probe.dot) => ~probe.result.ok

\* C2, amended: "Looking up {X} by {Y}" without the final '.' fails to parse
\* when neither X nor Y holds a '.'.
C2_NoTerminatorFails ==
    (/\ Called
     /\ ~probe.dot
     /\ ~Contains(probe.target, Dot)
     /\ ~Contains(probe.author, Dot))
    => ~probe.result.ok

C2_Witness ==
    /\ Called
    /\ ~probe.dot
    /\ probe.target = Foo
    /\ probe.author = Bar
    /\ ~probe.result.ok

\* ------------------------------------------------------ the event router
Done(i) == tasks[i].pc = "done"
Says(t) == SelectSeq(t.trace, LAMBDA c : c.op = "say")
ConfirmationIds == {"640402425395675178", "661826254215053324", "1014282115086565486"}
StatusIds == {"607661949194469376", "640402425395675178"}
SauceQaBar == <<"s", "a", "u", "c", "e", " ", "-", "q", "a", " ", "B", "a", "r">>

IsConfirmationOfBar(t) ==
    /\ t.kind = "message"
    /\ t.msg.author.id \in ConfirmationIds
    /\ t.msg.content = LookingUpBy(Foo, Bar, TRUE)

\* C3: "Looking up Foo by Bar." from ohsheet, lc or fort checker makes no send
\* until the settle delay has passed, and then exactly one send of "sauce -qa Bar"
\* to the channel of the message.
C3_AsStated ==
    \A i \in 1..Len(tasks) :
        IsConfirmationOfBar(tasks[i]) =>
            IF Done(i)
            THEN /\ Len(tasks[i].trace) = 2
                 /\ tasks[i].trace[1].op = "sleep"
                 /\ tasks[i].trace[1].target = 3
                 /\ Len(Says(tasks[i])) = 1
                 /\ tasks[i].trace[2].target = tasks[i].msg.channel_id
                 /\ tasks[i].trace[2].arg = SauceQaBar
            ELSE tasks[i].trace = <<>>

\* ------------------------------------------------------- the stage commands
ListCommands == {"lc_list", "st_list", "qc_list"}
MoveCommands == {"lc_move", "st_move", "qc_move"}
DeleteCommands == {"lc_delete", "st_delete", "qc_delete"}

StageOf(kind) ==
    CASE kind \in {"qc_list", "qc_move", "qc_delete"} -> 1
      [] kind \in {"st_list", "st_move", "st_delete"} -> 2
      [] kind \in {"lc_list", "lc_move", "lc_delete"} -> 3

Numeral(n) == <<DigitChars[n + 1]>>

\* a decimal numeral: one optional '+', then one digit or more
IsNumeral(tok) ==
    LET d == IF tok # <<>> /\ tok[1] = "+" THEN Tail(tok) ELSE tok
    IN d # <<>> /\ \A k \in 1..Len(d) : IsDigit(d[k])

RECURSIVE StripZeros(_)
StripZeros(d) == IF Len(d) > 1 /\ d[1] = "0" THEN StripZeros(Tail(d)) ELSE d

\* the numeral as it is written without sign and leading zeros
Canon(tok) == StripZeros(IF tok[1] = "+" THEN Tail(tok) ELSE tok)

U32Max == <<"4", "2", "9", "4", "9", "6", "7", "2", "9", "5">>

RECURSIVE DigitsLeq(_, _)
DigitsLeq(a, b) ==
    IF a = <<>> THEN TRUE
    ELSE IF a[1] # b[1] THEN to_digit(a[1]) < to_digit(b[1])
    ELSE DigitsLeq(Tail(a), Tail(b))

\* the numeral is at most 4294967295
FitsU32(tok) ==
    LET c == Canon(tok)
    IN Len(c) < Len(U32Max) \/ (Len(c) = Len(U32Max) /\ DigitsLeq(c, U32Max))

\* a command invoked with the one argument n, n a u32 numeral
HasId(t) == Len(t.args) = 1 /\ IsNumeral(t.args[1]) /\ FitsU32(t.args[1])

SentExactly(t, text) ==
    /\ Len(t.trace) = 1
    /\ t.trace[1].op = "say"
    /\ t.trace[1].target = t.msg.channel_id
    /\ t.trace[1].arg = text

\* C4 as stated: the list command of every stage sends "sauce {stage}#{n}".
C4_AsStated ==
    \A i \in 1..Len(tasks) :
        (tasks[i].kind \in ListCommands /\ HasId(tasks[i])) =>
            SentExactly(tasks[i],
                <<"s", "a", "u", "c", "e", " ">> \o Numeral(StageOf(tasks[i].kind))
                    \o <<"#">> \o Canon(tasks[i].args[1]))

\* C4, amended: the list commands of qc and st send "sauce {stage}#{n}", and the
\* list command of lc sends "sauce lc 3#{n}" (n a u32).
C4_ListText ==
    \A i \in 1..Len(tasks) :
        (tasks[i].kind \in ListCommands /\ HasId(tasks[i])) =>
            SentExactly(tasks[i],
                <<"s", "a", "u", "c", "e", " ">>
                    \o (IF tasks[i].kind = "lc_list" THEN <<"l", "c", " ">> ELSE <<>>)
                    \o Numeral(StageOf(tasks[i].kind))
                    \o <<"#">> \o Canon(tasks[i].args[1]))

C4_Witness ==
    \E i \in 1..Len(tasks) :
        /\ tasks[i].kind = "st_list"
        /\ tasks[i].args = <<(<<"0", "0", "7">>)>>
        /\ SentExactly(tasks[i], <<"s", "a", "u", "c", "e", " ", "2", "#", "7">>)

IsStage(i) == tasks[i].kind \in StageCommands

\* C6: a list, move or delete command sends with no argument what it sends with
\* the argument 1; lc-list sends "sauce lc 3#1", lc-list 5 "sauce lc 3#5",
\* qc-move 2 "sauce move 1#2 2" and st-delete "sauce delete 2#1".
C6_DefaultIsOne ==
    /\ \A i \in 1..Len(tasks) :
          (IsStage(i) /\ tasks[i].args = <<>>) =>
              /\ Len(Says(tasks[i])) = 1
              /\ \A j \in 1..Len(tasks) :
                    (tasks[j].kind = tasks[i].kind /\ tasks[j].args = <<(<<"1">>)>>) =>
                        /\ Len(Says(tasks[j])) = 1
                        /\ Says(tasks[j])[1].arg = Says(tasks[i])[1].arg
    /\ \A i \in 1..Len(tasks) :
          LET t == tasks[i]
          IN /\ (t.kind = "lc_list" /\ t.args = <<>>) =>
                   SentExactly(t, <<"s", "a", "u", "c", "e", " ", "l", "c", " ", "3", "#", "1">>)
             /\ (t.kind = "lc_list" /\ t.args = <<(<<"5">>)>>) =>
                   SentExactly(t, <<"s", "a", "u", "c", "e", " ", "l", "c", " ", "3", "#", "5">>)
             /\ (t.kind = "qc_move" /\ t.args = <<(<<"2">>)>>) =>
                   SentExactly(t, <<"s", "a", "u", "c", "e", " ", "m", "o", "v", "e", " ",
                                    "1", "#", "2", " ", "2">>)
             /\ (t.kind = "st_delete" /\ t.args = <<>>) =>
                   SentExactly(t, <<"s", "a", "u", "c", "e", " ", "d", "e", "l", "e", "t", "e",
                                    " ", "2", "#", "1">>)

C6_Witness ==
    \E i, j \in 1..Len(tasks) :
        /\ tasks[i].kind = "st_delete"
        /\ tasks[j].kind = "st_delete"
        /\ tasks[i].args = <<>>
        /\ tasks[j].args = <<(<<"1">>)>>
        /\ Len(Says(tasks[i])) = 1
        /\ Len(Says(tasks[j])) = 1
        /\ Says(tasks[i])[1].arg = Says(tasks[j])[1].arg

\* the text sent carries n: after its '#' comes n, and then a space or the end
Carries(text, n) ==
    LET h == find_substring(text, <<"#">>)
        after == Drop(text, h + 1)
    IN /\ h >= 0
       /\ starts_with(after, n)
       /\ (Len(after) = Len(n) \/ after[Len(n) + 1] = " ")

ArgAccepted(t) ==
    /\ t.result # "ArgError"
    /\ Len(Says(t)) = 1
    /\ Carries(Says(t)[1].arg, Canon(t.args[1]))

ArgRefused(t) == t.result = "ArgError" /\ t.trace = <<>>

\* a command that fails on its argument leaves both slots as they were
ArgErrorFrame ==
    (/\ Len(tasks') = Len(tasks) + 1
     /\ tasks'[Len(tasks')].result = "ArgError")
    => /\ LAST_LC' = LAST_LC
       /\ LAST_SRIRACHA_EMBED_MESSAGE' = LAST_SRIRACHA_EMBED_MESSAGE

\* C7 as stated: a first argument that is a non-negative integer is accepted and
\* carried as n; any other first argument fails the command, with nothing sent
\* and both slots unchanged.
C7_AsStated ==
    \A i \in 1..Len(tasks) :
        (IsStage(i) /\ tasks[i].args # <<>>) =>
            IF IsNumeral(tasks[i].args[1]) THEN ArgAccepted(tasks[i])
            ELSE ArgRefused(tasks[i])

\* C7, amended: a first argument that is a decimal numeral of at most 4294967295
\* is accepted and carried as n; any other first argument fails the command, with
\* nothing sent and both slots unchanged.
C7_ArgumentRule ==
    /\ [](\A i \in 1..Len(tasks) :
            (IsStage(i) /\ tasks[i].args # <<>>) =>
                IF IsNumeral(tasks[i].args[1]) /\ FitsU32(tasks[i].args[1])
                THEN ArgAccepted(tasks[i])
                ELSE ArgRefused(tasks[i]))
    /\ [][ArgErrorFrame]_vars

C7_Witness ==
    \E i, j \in 1..Len(tasks) :
        /\ i < j
        /\ tasks[i].kind = "message"
        /\ LAST_LC = LcA
        /\ tasks[j].kind = "qc_list"
        /\ tasks[j].args = <<(<<"x">>)>>
        /\ ArgRefused(tasks[j])

\* ---------------------------------------------------------------- lc-retry
IsTrigger(t) ==
    /\ t.kind = "message"
    /\ t.msg.author.id \in StatusIds
    /\ Len(t.msg.content) >= 3
    /\ SubSeq(t.msg.content, 1, 3) = <<".", "l", "c">>

\* the text of the last trigger message handled before task i started, or ""
LastTriggerBefore(i) ==
    LET before == {j \in 1..(i - 1) : IsTrigger(tasks[j])}
    IN IF before = {} THEN <<>>
       ELSE tasks[CHOOSE j \in before : \A k \in before : k <= j].msg.content

RetrySends(i) ==
    /\ tasks[i].local = LastTriggerBefore(i)
    /\ Done(i) => SentExactly(tasks[i], LastTriggerBefore(i))

IsToggle(t) == t.kind \in {"en", "jp"}

\* task i reads the embed slot in this step and finds it empty
ReadsNone(i) ==
    /\ IsToggle(tasks[i])
    /\ tasks[i].pc = "read"
    /\ tasks'[i] # tasks[i]
    /\ LAST_SRIRACHA_EMBED_MESSAGE = <<>>

\* C9: en and jp, finding lastTrackedMessage absent, make no transport call,
\* return no error and leave both slots unchanged.
C9_AbsentIsNoOp ==
    [][\A i \in 1..Len(tasks) :
          ReadsNone(i) =>
              /\ tasks'[i].pc = "done"
              /\ tasks'[i].trace = <<>>
              /\ tasks'[i].result = "Ok"
              /\ LAST_LC' = LAST_LC
              /\ LAST_SRIRACHA_EMBED_MESSAGE' = <<>>]_vars

C9_Witness ==
    \E i, j \in 1..Len(tasks) :
        /\ tasks[i].kind = "en"
        /\ tasks[j].kind = "jp"
        /\ Done(i)
        /\ Done(j)
        /\ tasks[i].trace = <<>>
        /\ tasks[j].trace = <<>>
        /\ tasks[i].result = "Ok"
        /\ tasks[j].result = "Ok"
        /\ LAST_SRIRACHA_EMBED_MESSAGE = <<>>

\* ------------------------------------------------------ transport failures
Calls(t, op) == SelectSeq(t.trace, LAMBDA c : c.op = op)
NoCallRepeated(t) ==
    \A op \in {"say", "delete_reaction_emoji", "react"} : Len(Calls(t, op)) <= 1
LastCallFailed(t) == t.trace # <<>> /\ ~t.trace[Len(t.trace)].ok

Written == {tasks[j].msg.content : j \in {k \in 1..Len(tasks) : tasks[k].kind = "message"}}

HasRead(t) == t.kind = "lc_retry" /\ t.pc \in {"say", "done"}

\* a read asked for while no write guard is held or waited for is granted at once
ReadersShare ==
    \A i \in 1..Len(tasks') :
        (/\ i > Len(tasks)
         /\ tasks'[i].kind = "lc_retry"
         /\ lc_lock.writer = 0
         /\ lc_lock.queue = <<>>)
        => i \in lc_lock'.readers

\* C11: with messages ".lc ab" and ".lc ba" from status sources and lc-retry
\* commands handled at the same time, LAST_LC holds a whole written text whenever
\* no writer is at work (so it ends as one of the two), every lc-retry has read ""
\* or a whole written text, never a mixture of two, no read guard is held while
\* the write guard is, and a reader is not kept out by other readers.
C11_LastLcNeverTorn ==
    /\ [](/\ lc_lock.writer = 0 => LAST_LC \in {<<>>} \cup Written
          /\ (Written # {} /\ Running = {}) => LAST_LC \in Written
          /\ \A i \in 1..Len(tasks) :
                HasRead(tasks[i]) => tasks[i].local \in {<<>>} \cup Written
          /\ lc_lock.writer # 0 => lc_lock.readers = {})
    /\ [][ReadersShare]_vars

C11_Witness ==
    /\ Len(tasks) = 3
    /\ tasks[1].msg.content = LcAB
    /\ tasks[1].pc = "done"
    /\ tasks[2].msg.content = LcBA
    /\ tasks[2].pc = "lc_store"
    /\ tasks[3].kind = "lc_retry"
    /\ tasks[3].pc = "lc_read"
    /\ LAST_LC = <<".", "l", "c", " ", "b", "b">>
    /\ lc_lock.writer = 2
    /\ lc_lock.readers = {}

\* ---------------------------------------------------------------- C12
\* C12: is_sriracha_bot answers true exactly for the ids of sriracha and ohsheet,
\* is_lc_bot exactly for the ids of ohsheet, lc and fort checker (so ohsheet passes
\* both and any other id neither), and two checks of one id, made at any two
\* moments of a session, give the same answers.
C12_Classifiers ==
    /\ \A k \in 1..Len(checks) :
          /\ checks[k].is_sriracha_bot = (checks[k].id \in StatusIds)
          /\ checks[k].is_lc_bot = (checks[k].id \in ConfirmationIds)
    /\ \A j, k \in 1..Len(checks) :
          checks[j].id = checks[k].id
          => /\ checks[j].is_sriracha_bot = checks[k].is_sriracha_bot
             /\ checks[j].is_lc_bot = checks[k].is_lc_bot

C12_Witness ==
    /\ Len(checks) = 2
    /\ checks[1].id = "1014282115086565486"
    /\ checks[2].id = "1014282115086565486"
    /\ checks[1].at = 0
    /\ checks[2].at = 1
    /\ LAST_LC = LcA
    /\ ~checks[2].is_sriracha_bot
    /\ checks[2].is_lc_bot

\* ---------------------------------------------------------------- C13
\* C13: when author_get succeeds, what it returns is the text strictly between
\* the first " by " that starts after "Looking up " and the first '.' after that
\* separator, with nothing trimmed; an author holding a '.' is cut at that '.'.
C13_FirstSeparatorFirstDot ==
    (Called /\ probe.result.ok)
    => /\ Take(probe.input, 11) = LookingUpSp
       /\ \E p \in 12..(Len(probe.input) - 3), q \in 12..Len(probe.input) :
             /\ SubSeq(probe.input, p, p + 3) = By
             /\ \A k \in 12..(p - 1) : SubSeq(probe.input, k, k + 3) # By
             /\ q >= p + 4
             /\ probe.input[q] = "."
             /\ \A k \in (p + 4)..(q - 1) : probe.input[k] # "."
             /\ probe.result.out = SubSeq(probe.input, p + 4, q - 1)

C13_Witness ==
    /\ Called
    /\ probe.target = Widget
    /\ probe.author = JSmith
    /\ probe.dot
    /\ probe.result.ok
    /\ probe.result.out = <<"J">>

\* ---------------------------------------------------------------- C14
\* task i started or moved in this step
Stepped(i) == i > Len(tasks) \/ tasks'[i] # tasks[i]

IsStatusMessage(t) == t.kind = "message" /\ t.msg.author.id \in StatusIds

HasTriggerPrefix(text) == Len(text) >= 3 /\ SubSeq(text, 1, 3) = <<".", "l", "c">>

StatusMessageFrame ==
    \A i \in 1..Len(tasks') :
        (Stepped(i) /\ IsStatusMessage(tasks'[i]))
        => LET t == tasks'[i]
           IN /\ t.trace = <<>>
              /\ IF HasTriggerPrefix(t.msg.content)
                 THEN /\ LAST_LC' = t.msg.content
                      /\ LAST_SRIRACHA_EMBED_MESSAGE' = LAST_SRIRACHA_EMBED_MESSAGE
                      /\ t.pc = "done"
                 ELSE IF t.msg.embeds # <<>>
                 THEN /\ LAST_LC' = LAST_LC
                      /\ LAST_SRIRACHA_EMBED_MESSAGE' =
                            IF t.pc = "done" THEN <<t.msg>> ELSE LAST_SRIRACHA_EMBED_MESSAGE
                 ELSE /\ LAST_LC' = LAST_LC
                      /\ LAST_SRIRACHA_EMBED_MESSAGE' = LAST_SRIRACHA_EMBED_MESSAGE
                      /\ t.pc = "done"

\* C14: every step of the handling of a message from sriracha or ohsheet changes
\* at most one slot: a text beginning ".lc" replaces LAST_LC by the whole text and
\* leaves the tracked message alone even when the message has an embed; otherwise
\* a message with an embed becomes the tracked message and LAST_LC stays;
\* otherwise both stay; and the handling never makes a call of its own.
C14_OneSlotPerStatusMessage == [][StatusMessageFrame]_vars

C14_Witness ==
    /\ Len(tasks) = 2
    /\ tasks[1].msg.author.id = "607661949194469376"
    /\ tasks[1].msg.content = LcA
    /\ tasks[1].msg.embeds = OneEmbed
    /\ tasks[2].kind = "message"
    /\ tasks[2].msg.author.id = "640402425395675178"
    /\ tasks[2].msg.content = LookingUpBy(Foo, Bar, TRUE)
    /\ tasks[2].msg.embeds = OneEmbed
    /\ Done(1)
    /\ Done(2)
    /\ LAST_LC = LcA
    /\ LAST_SRIRACHA_EMBED_MESSAGE = <<tasks[2].msg>>
    /\ tasks[1].trace = <<>>
    /\ tasks[2].trace = <<>>

\* ---------------------------------------------------------------- C15
OnConfirmationBranch(t) ==
    /\ t.kind = "message"
    /\ t.msg.author.id \in ConfirmationIds
    /\ Len(t.msg.content) >= 10
    /\ SubSeq(t.msg.content, 1, 10) = LookingUp

\* C15: a message from ohsheet, lc or fort checker whose text begins "Looking up"
\* makes exactly one send: "sauce -qa {author}" after the 3 s sleep when the text
\* parses, "Could not find author" at once and without a sleep when it does not.
C15_AsStated ==
    \A i \in 1..Len(tasks) :
        (OnConfirmationBranch(tasks[i]) /\ Done(i))
        => LET t == tasks[i]
               r == author_get(t.msg.content)
           IN IF r.ok
              THEN /\ Len(t.trace) = 2
                   /\ t.trace[1] = CallSleep(3)
                   /\ t.trace[2].op = "say"
                   /\ t.trace[2].arg = SauceQa \o r.out
              ELSE /\ Len(t.trace) = 1
                   /\ t.trace[1].op = "say"
                   /\ t.trace[1].arg = CouldNotFindAuthor

\* ---------------------------------------------------------------- C16
SlotsFrame ==
    \A i \in 1..Len(tasks') :
        (Stepped(i) /\ ~IsStatusMessage(tasks'[i]))
        => /\ LAST_LC' = LAST_LC
           /\ LAST_SRIRACHA_EMBED_MESSAGE' = LAST_SRIRACHA_EMBED_MESSAGE

Unrouted(t) ==
    /\ t.kind = "message"
    /\ \/ t.msg.author.id \notin (StatusIds \cup ConfirmationIds)
       \/ /\ t.msg.author.id \in ConfirmationIds
          /\ ~OnConfirmationBranch(t)

\* C16: no step of a command, of a message from lc or fort checker, or of a
\* message from any other author but sriracha and ohsheet changes LAST_LC or the
\* tracked message; and a message from an author outside the four bots, or from
\* ohsheet, lc or fort checker with a text not beginning "Looking up", makes no
\* call.
C16_SlotsOnlyFromStatusBranch ==
    /\ [][SlotsFrame]_vars
    /\ [](\A i \in 1..Len(tasks) : Unrouted(tasks[i]) => tasks[i].trace = <<>>)

C16_Witness ==
    /\ Len(tasks) = 2
    /\ tasks[1].kind = "message"
    /\ tasks[1].msg.author.id = "661826254215053324"
    /\ tasks[1].msg.content = LcA
    /\ tasks[1].msg.embeds = OneEmbed
    /\ tasks[2].kind = "lc_retry"
    /\ Done(1)
    /\ Done(2)
    /\ tasks[1].trace = <<>>
    /\ LAST_LC = <<>>
    /\ LAST_SRIRACHA_EMBED_MESSAGE = <<>>

\* ---------------------------------------------------------------- C17
OwnEmoji(kind) == IF kind = "en" THEN <<"U", "S">> ELSE <<"J", "P">>

\* the calls task i makes in this step
NewCalls(i) == SubSeq(tasks'[i].trace, Len(tasks[i].trace) + 1, Len(tasks'[i].trace))

\* each step of a toggle that found a tracked message makes one call, on the
\* message tracked at that moment and with the toggle's own emoji
CallsOnTracked ==
    \A i \in 1..Len(tasks) :
        (IsToggle(tasks[i]) /\ tasks'[i] # tasks[i] /\ LAST_SRIRACHA_EMBED_MESSAGE # <<>>)
        => /\ Len(NewCalls(i)) = 1
           /\ NewCalls(i)[1].target = LAST_SRIRACHA_EMBED_MESSAGE[1].id
           /\ NewCalls(i)[1].arg = OwnEmoji(tasks[i].kind)

RemoveThenAdd(t) ==
    /\ Len(t.trace) = 2
    /\ t.trace[1].op = "delete_reaction_emoji"
    /\ t.trace[2].op = "react"
    /\ t.trace[1].arg = OwnEmoji(t.kind)
    /\ t.trace[2].arg = OwnEmoji(t.kind)
    /\ t.trace[2].target = t.trace[1].target

\* the toggles that have made a call on message m
TogglesOn(m) ==
    {i \in 1..Len(tasks) : IsToggle(tasks[i]) /\ tasks[i].trace # <<>>
                            /\ tasks[i].trace[1].target = m}

BothApplied(m) ==
    /\ \E i \in TogglesOn(m) : tasks[i].kind = "en"
    /\ \E i \in TogglesOn(m) : tasks[i].kind = "jp"
    /\ \A i \in TogglesOn(m) : Done(i) /\ tasks[i].result = "Ok"

\* C17: a toggle that finds a tracked message makes, on the message tracked at
\* the time, one delete_reaction_emoji and then one react, both with its own
\* emoji (en the US flag, jp the Japan flag) and nothing else; and once en and jp
\* have both run on one message and every toggle run on it has returned Ok, the
\* message carries the bot's reaction of each flag.
C17_RemoveThenAddOwnEmoji ==
    /\ [][CallsOnTracked]_vars
    /\ [](\A i \in 1..Len(tasks) :
            (IsToggle(tasks[i]) /\ Done(i) /\ tasks[i].trace # <<>>)
            => RemoveThenAdd(tasks[i]))
    /\ [](\A m \in 1..Len(tasks) :
            BothApplied(m) => {<<m, <<"U", "S">>>>, <<m, <<"J", "P">>>>} \subseteq reactions)

C17_Witness ==
    /\ Len(tasks) = 3
    /\ tasks[1].kind = "message"
    /\ tasks[2].kind = "en"
    /\ tasks[3].kind = "jp"
    /\ BothApplied(1)
    /\ RemoveThenAdd(tasks[2])
    /\ RemoveThenAdd(tasks[3])
    /\ reactions = {<<1, <<"U", "S">>>>, <<1, <<"J", "P">>>>}

\* ---------------------------------------------------------------- C18
\* C18: while a confirmation is in its settle delay, another inbound message can
\* still start, however many confirmations are in their delay at that moment.
C18_AsStated ==
    ((\E i \in 1..Len(tasks) : tasks[i].pc = "sleep") /\ Len(tasks) < MaxSleepTasks)
    => ENABLED message(SleepU, MaxSleepTasks)

\* ---------------------------------------------------------------- C19
HoldsReadGuard(i) == IsToggle(tasks[i]) /\ i \in embed_lock.readers

\* C19: while an en or jp holds its read guard the tracked message does not
\* change, so the delete_reaction_emoji and the react of one invocation are made
\* on one message, the one tracked when the guard was taken, even when a newer
\* message with an embed has arrived in between; and every toggle and every
\* tracker write that has started comes to its end.
C19_GuardHeldAcrossCalls ==
    /\ [][(\E i \in 1..Len(tasks) : HoldsReadGuard(i))
            => LAST_SRIRACHA_EMBED_MESSAGE' = LAST_SRIRACHA_EMBED_MESSAGE]_vars
    /\ [](\A i \in 1..Len(tasks) :
            (IsToggle(tasks[i]) /\ tasks[i].pc = "react")
            => /\ HoldsReadGuard(i)
               /\ LAST_SRIRACHA_EMBED_MESSAGE[1].id = tasks[i].target)
    /\ [](\A i \in 1..Len(tasks) :
            \A k \in 1..Len(tasks[i].trace) :
                IsToggle(tasks[i]) => tasks[i].trace[k].target = tasks[i].target)
    /\ \A i \in 1..MaxReactTasks :
          (i <= Len(tasks)) ~> (i <= Len(tasks) /\ Done(i))

C19_Witness ==
    /\ Len(tasks) = 3
    /\ tasks[1].kind = "message"
    /\ Done(1)
    /\ tasks[2].kind = "jp"
    /\ tasks[2].pc = "react"
    /\ tasks[2].target = 1
    /\ tasks[3].kind = "message"
    /\ tasks[3].pc = "write"
    /\ LAST_SRIRACHA_EMBED_MESSAGE[1].id = 1
    /\ Len(embed_lock.queue) = 1

====
